---- MODULE Spec2Model ----
(***************************************************************************)
(* Model of source/operators/thumbnail/start_thumbnail.py: the Lambda      *)
(* operator that submits one MediaConvert job (thumbnail, audio, proxy,    *)
(* HLS) per invocation and maps the synchronous result of create_job into  *)
(* a workflow status.                                                      *)
(*                                                                         *)
(* Python strings are modelled as sequences of atoms, so that "+" is \o    *)
(* and '' is << >>.  Python dicts are functions with a finite domain of    *)
(* keys; d[k] on a missing key raises KeyError(k).                         *)
(***************************************************************************)
EXTENDS Integers, Sequences, FiniteSets, TLC

\* ------------------------------------------------------------------ bounds
MaxInvocations == 2

\* ------------------------------------------------------- python primitives
EmptyDict == [k \in {} |-> << >>]

IntVal(n) == [t |-> "int", n |-> n, s |-> << >>]
StrVal(s) == [t |-> "str", n |-> 0, s |-> s]

Digits == <<"0", "1", "2", "3", "4", "5", "6", "7", "8", "9">>

DigitChars == {Digits[i] : i \in 1..10}

DigitValue(c) == (CHOOSE i \in 1..10 : Digits[i] = c) - 1

RECURSIVE StripLeft(_)
StripLeft(s) == IF s # << >> /\ Head(s) = " " THEN StripLeft(Tail(s)) ELSE s

RECURSIVE StripRight(_)
StripRight(s) ==
    IF s # << >> /\ s[Len(s)] = " " THEN StripRight(SubSeq(s, 1, Len(s) - 1)) ELSE s

RECURSIVE DecimalValue(_)
DecimalValue(s) ==
    IF s = << >> THEN 0
    ELSE 10 * DecimalValue(SubSeq(s, 1, Len(s) - 1)) + DigitValue(s[Len(s)])

\* int(x): an int is returned unchanged; a str is stripped of blanks and
\* parsed as an optionally signed run of decimal digits, anything else is a
\* ValueError.
PyInt(v) ==
    IF v.t = "int" THEN [ok |-> TRUE, n |-> v.n]
    ELSE LET body   == StripRight(StripLeft(v.s))
             signed == body # << >> /\ Head(body) \in {"-", "+"}
             digits == IF signed THEN Tail(body) ELSE body
             valid  == digits # << >> /\ \A i \in 1..Len(digits) : digits[i] \in DigitChars
         IN  IF ~valid THEN [ok |-> FALSE, n |-> 0]
             ELSE IF signed /\ Head(body) = "-"
                  THEN [ok |-> TRUE, n |-> 0 - DecimalValue(digits)]
                  ELSE [ok |-> TRUE, n |-> DecimalValue(digits)]

RECURSIVE NatDigits(_)
NatDigits(n) ==
    IF n < 10 THEN <<Digits[n + 1]>> ELSE NatDigits(n \div 10) \o <<Digits[(n % 10) + 1]>>

\* str(x): a str is returned unchanged, an int is rendered in decimal.
PyStr(v) ==
    IF v.t = "str" THEN v.s
    ELSE IF v.n < 0 THEN <<"-">> \o NatDigits(0 - v.n) ELSE NatDigits(v.n)

KeyError(k) == [type |-> "KeyError", args |-> <<k>>]
Exception(msg) == [type |-> "Exception", args |-> <<msg>>]

\* str(e): KeyError shows the repr of its key (quoted), other exceptions
\* show their message.
ExcStr(e) ==
    IF e.type = "KeyError" THEN <<"'">> \o e.args \o <<"'">> ELSE e.args

\* ------------------------------------------------------------ input domains
WorkflowIds == {StrVal(<<"wf-1">>), IntVal(12)}
AssetIds == {<<"asset-1">>}
InputBuckets == {<<"input-bucket">>}
InputKeys == {<<"videos/a.mp4">>}
Positions == {IntVal(3), IntVal(0), IntVal(0 - 2), StrVal(<<" ", "1", "0">>), StrVal(<<"x">>)}

JobIds == {<<"abc123">>, <<"job-2">>}
RemoteErrors == {Exception("AccessDenied"), KeyError("Settings")}

Videos ==
    {[S3Bucket |-> b, S3Key |-> k] : b \in InputBuckets, k \in InputKeys}
    \cup {[S3Bucket |-> b] : b \in InputBuckets}
    \cup {[S3Key |-> k] : k \in InputKeys}

Inputs == {EmptyDict} \cup {[Media |-> [Video |-> v]] : v \in Videos}

Configurations == {EmptyDict} \cup {[ThumbnailPosition |-> p] : p \in Positions}

AllEvents ==
    {w @@ a @@ [Input |-> i, Configuration |-> c, Status |-> "Started"] :
        w \in {EmptyDict} \cup {[WorkflowExecutionId |-> x] : x \in WorkflowIds},
        a \in {EmptyDict} \cup {[AssetId |-> x] : x \in AssetIds},
        i \in Inputs,
        c \in Configurations}

HasRequired(ev) ==
    /\ "WorkflowExecutionId" \in DOMAIN ev
    /\ "Media" \in DOMAIN ev.Input
    /\ DOMAIN ev.Input.Media.Video = {"S3Bucket", "S3Key"}

\* every event that has the required fields; an event that lacks one is
\* tried with an asset id and no position, and with no asset id and a
\* position that is not a number
Events ==
    {ev \in AllEvents :
        \/ HasRequired(ev)
        \/ "AssetId" \in DOMAIN ev /\ ev.Configuration = EmptyDict
        \/ "AssetId" \notin DOMAIN ev
               /\ ev.Configuration = [ThumbnailPosition |-> StrVal(<<"x">>)]}

\* the environment the process starts in
StartEnvironment ==
    [MEDIACONVERT_ENDPOINT |-> <<"https://e1.mediaconvert">>,
     mediaconvertRole |-> <<"role-1">>,
     DATAPLANE_BUCKET |-> <<"dataplane-1">>]

\* the environment with every value replaced
ChangedEnvironment ==
    [MEDIACONVERT_ENDPOINT |-> <<"https://e2.mediaconvert">>,
     mediaconvertRole |-> <<"role-2">>,
     DATAPLANE_BUCKET |-> <<"dataplane-2">>]

\* the environment with the endpoint removed
NoEndpointEnvironment ==
    [mediaconvertRole |-> StartEnvironment.mediaconvertRole,
     DATAPLANE_BUCKET |-> StartEnvironment.DATAPLANE_BUCKET]

Environments == {StartEnvironment, ChangedEnvironment, NoEndpointEnvironment}

\* ------------------------------------------- MediaInsightsOperationHelper
\* The helper wraps the event; a field the event does not carry raises
\* KeyError when it is read.
MediaInsightsOperationHelper(ev) ==
    [event |-> ev, status |-> ev.Status, metadata |-> EmptyDict]

\* d[k] of a dict: either the value or KeyError(k).
GetItem(d, k) ==
    IF k \in DOMAIN d THEN [ok |-> TRUE, value |-> d[k], exc |-> KeyError(k)]
    ELSE [ok |-> FALSE, value |-> EmptyDict, exc |-> KeyError(k)]

workflow_execution_id(obj) == GetItem(obj.event, "WorkflowExecutionId")

asset_id_attr(obj) == GetItem(obj.event, "AssetId")

update_workflow_status(obj, status) == [obj EXCEPT !.status = status]

\* keyword arguments are merged into the metadata, new keys winning
add_workflow_metadata(obj, kwargs) == [obj EXCEPT !.metadata = kwargs @@ @]

return_output_object(obj) == [Status |-> obj.status, MetaData |-> obj.metadata]

\* ---------------------------------------------------------- lambda_handler
Unbound == <<"<unbound>">>

\* RequiredFields with the object key read leniently: a missing S3Key
\* becomes '' instead of raising
RequiredFieldsLenientKey(obj) ==
    LET wf     == workflow_execution_id(obj)
        media  == GetItem(obj.event.Input, "Media")
        video  == IF media.ok THEN GetItem(media.value, "Video") ELSE media
        bucket == IF video.ok THEN GetItem(video.value, "S3Bucket") ELSE video
        key    == IF video.ok THEN GetItem(video.value, "S3Key") ELSE video
        fail(e) == [ok |-> FALSE, exc |-> e, workflow_id |-> Unbound,
                    input_bucket |-> Unbound, input_key |-> Unbound]
    IN  IF ~wf.ok THEN fail(wf.exc)
        ELSE IF ~bucket.ok THEN fail(bucket.exc)
        ELSE [ok |-> TRUE, exc |-> wf.exc, workflow_id |-> PyStr(wf.value),
              input_bucket |-> bucket.value,
              input_key |-> IF key.ok THEN key.value ELSE << >>]

\* the first try block: workflow id, then bucket, then key; the first
\* missing key wins
RequiredFields(obj) ==
    LET wf     == workflow_execution_id(obj)
        media  == GetItem(obj.event.Input, "Media")
        video  == IF media.ok THEN GetItem(media.value, "Video") ELSE media
        bucket == IF video.ok THEN GetItem(video.value, "S3Bucket") ELSE video
        key    == IF video.ok THEN GetItem(video.value, "S3Key") ELSE video
        fail(e) == [ok |-> FALSE, exc |-> e, workflow_id |-> Unbound,
                    input_bucket |-> Unbound, input_key |-> Unbound]
    IN  IF ~wf.ok THEN fail(wf.exc)
        ELSE IF ~bucket.ok THEN fail(bucket.exc)
        ELSE IF ~key.ok THEN fail(key.exc)
        ELSE [ok |-> TRUE, exc |-> wf.exc, workflow_id |-> PyStr(wf.value),
              input_bucket |-> bucket.value, input_key |-> key.value]

MissingKeyMessage(e) == <<"Missing a required metadata key ">> \o ExcStr(e)

\* the second try block: a missing asset id becomes ''
AssetIdOf(obj) ==
    LET a == asset_id_attr(obj) IN IF a.ok THEN a.value ELSE << >>

FileInput(input_bucket, input_key) == <<"s3://">> \o input_bucket \o <<"/">> \o input_key

AudioDestination(bucket, asset_id, workflow_id) ==
    <<"s3://">> \o bucket \o <<"/">> \o <<"private/assets/">> \o asset_id
        \o <<"/", "workflows/">> \o workflow_id \o <<"/">>

ThumbnailDestination(bucket, asset_id, workflow_id) ==
    <<"s3://">> \o bucket \o <<"/">> \o <<"private/assets/">> \o asset_id \o <<"/">>

\* ProxyDestination built like the audio destination, under the workflow
ProxyDestinationPerWorkflow(bucket, asset_id, workflow_id) ==
    <<"s3://">> \o bucket \o <<"/">> \o <<"private/assets/">> \o asset_id
        \o <<"/", "workflows/">> \o workflow_id \o <<"/">>

ProxyDestination(bucket, asset_id, workflow_id) ==
    <<"s3://">> \o bucket \o <<"/">> \o <<"private/assets/">> \o asset_id \o <<"/">>

DefaultThumbnailPosition == 7

\* ThumbnailPosition with a local range check: a position below 1 is
\* rejected like a value that is not a number
ThumbnailPositionRangeChecked(configuration) ==
    IF "ThumbnailPosition" \in DOMAIN configuration
    THEN LET p == PyInt(configuration["ThumbnailPosition"])
         IN  IF p.ok /\ p.n < 1 THEN [ok |-> FALSE, n |-> 0] ELSE p
    ELSE [ok |-> TRUE, n |-> DefaultThumbnailPosition]

\* ThumbnailPosition with the configuration never consulted
ThumbnailPositionIgnored(configuration) ==
    [ok |-> TRUE, n |-> DefaultThumbnailPosition]

\* int(configuration["ThumbnailPosition"]) when the key is there, else 7
ThumbnailPosition(configuration) ==
    IF "ThumbnailPosition" \in DOMAIN configuration
    THEN PyInt(configuration["ThumbnailPosition"])
    ELSE [ok |-> TRUE, n |-> DefaultThumbnailPosition]

\* ------------------------------------------------------ the job template
AacAudio(bitrate) == [Codec |-> "AAC", Bitrate |-> bitrate, SampleRate |-> 48000]

HlsOutput(width, height, maxBitrate, modifier) ==
    [Container |-> "M3U8", Width |-> width, Height |-> height, Codec |-> "H_264",
     MaxBitrate |-> maxBitrate, RateControlMode |-> "QVBR",
     AudioDescriptions |-> <<AacAudio(96000)>>, NameModifier |-> modifier]

\* ThumbnailGroup with the position also written into MaxCaptures
ThumbnailGroupMaxCaptures(thumbnail_position, thumbnail_destination) ==
    [CustomName |-> "thumbnail",
     Name |-> "File Group",
     Outputs |-> <<[Container |-> "RAW",
                    Codec |-> "FRAME_CAPTURE",
                    FrameCaptureSettings |->
                        [FramerateNumerator |-> 1,
                         FramerateDenominator |-> thumbnail_position,
                         MaxCaptures |-> thumbnail_position,
                         Quality |-> 80],
                    Extension |-> "jpg",
                    NameModifier |-> "_thumbnail"]>>,
     OutputGroupSettings |-> [Type |-> "FILE_GROUP_SETTINGS",
                              Destination |-> thumbnail_destination]]

ThumbnailGroup(thumbnail_position, thumbnail_destination) ==
    [CustomName |-> "thumbnail",
     Name |-> "File Group",
     Outputs |-> <<[Container |-> "RAW",
                    Codec |-> "FRAME_CAPTURE",
                    FrameCaptureSettings |->
                        [FramerateNumerator |-> 1,
                         FramerateDenominator |-> thumbnail_position,
                         MaxCaptures |-> 2,
                         Quality |-> 80],
                    Extension |-> "jpg",
                    NameModifier |-> "_thumbnail"]>>,
     OutputGroupSettings |-> [Type |-> "FILE_GROUP_SETTINGS",
                              Destination |-> thumbnail_destination]]

AudioGroup(audio_destination) ==
    [Name |-> "File Group",
     Outputs |-> <<[Container |-> "MP4",
                    AudioDescriptions |-> <<AacAudio(96000)>>,
                    Extension |-> "mp4",
                    NameModifier |-> "_audio"]>>,
     OutputGroupSettings |-> [Type |-> "FILE_GROUP_SETTINGS",
                              Destination |-> audio_destination]]

ProxyGroup(proxy_destination) ==
    [CustomName |-> "proxy",
     Name |-> "File Group",
     Outputs |-> <<[Container |-> "MP4",
                    Codec |-> "H_264",
                    Bitrate |-> 1600000,
                    GopSize |-> 90,
                    CodecProfile |-> "MAIN",
                    FramerateNumerator |-> 30,
                    FramerateDenominator |-> 1,
                    AudioDescriptions |-> <<AacAudio(64000)>>,
                    Extension |-> "mp4",
                    NameModifier |-> "_proxy"]>>,
     OutputGroupSettings |-> [Type |-> "FILE_GROUP_SETTINGS",
                              Destination |-> proxy_destination]]

HlsGroup(proxy_destination) ==
    [Name |-> "Apple HLS",
     Outputs |-> <<HlsOutput(1920, 1080, 4000000, "_1080p"),
                   HlsOutput(1280, 720, 2500000, "_720ph"),
                   HlsOutput(1280, 720, 1500000, "_720pl"),
                   HlsOutput(960, 540, 1000000, "_540p"),
                   HlsOutput(640, 360, 600000, "_360p")>>,
     OutputGroupSettings |-> [Type |-> "HLS_GROUP_SETTINGS",
                              SegmentLength |-> 6,
                              Destination |-> proxy_destination,
                              MinSegmentLength |-> 1,
                              MinFinalSegmentLength |-> 1,
                              SegmentControl |-> "SEGMENTED_FILES"]]

JobInput(file_input) ==
    [AudioSelectors |-> [AudioSelector1 |-> [Offset |-> 0,
                                             DefaultSelection |-> "DEFAULT",
                                             ProgramSelection |-> 1]],
     VideoSelector |-> [ColorSpace |-> "FOLLOW"],
     FileInput |-> file_input]

JobSettings(thumbnail_position, thumbnail_destination, audio_destination, proxy_destination, file_input) ==
    [OutputGroups |-> <<ThumbnailGroup(thumbnail_position, thumbnail_destination),
                        AudioGroup(audio_destination),
                        ProxyGroup(proxy_destination),
                        HlsGroup(proxy_destination)>>,
     Inputs |-> <<JobInput(file_input)>>]

\* ------------------------------------------------------------------- state
VARIABLES
    environ,            \* os.environ of the process
    mediaconvert_role,  \* module global, read from the environment at import
    dataplane_bucket,   \* module global, read from the environment at import
    pc,                 \* "idle", "create_job" (blocked in the remote call), "done"
    operator_object,    \* the helper object of the current invocation, with its event
    frame,              \* the local variables of lambda_handler
    call,               \* the create_job call the service received last
    remote,             \* what the create_job call came back with
    result,             \* how the current invocation ended
    ncalls,             \* create_job calls made by the current invocation
    nclients,           \* boto3 clients created by the current invocation
    njobs,              \* create_job calls the service received in all
    nreached,           \* invocations that reached the create_job call
    ninvocations,       \* invocations started
    prev                \* the previous invocation that reached create_job

vars == <<environ, mediaconvert_role, dataplane_bucket, pc, operator_object,
          frame, call, remote, result, ncalls, nclients, njobs, nreached, ninvocations, prev>>

\* the event of the current invocation
event == operator_object.event

NoFrame ==
    [workflow_id |-> Unbound, input_bucket |-> Unbound, input_key |-> Unbound,
     asset_id |-> Unbound, file_input |-> Unbound, audio_destination |-> Unbound,
     thumbnail_destination |-> Unbound, proxy_destination |-> Unbound,
     thumbnail_position |-> Unbound, mediaconvert_endpoint |-> Unbound]

NoCall == [client |-> EmptyDict, kwargs |-> EmptyDict]

NoRemote == [kind |-> "none", response |-> EmptyDict, e |-> EmptyDict]

NoResult == [kind |-> "none", exc |-> "none", value |-> EmptyDict]

NoPrev ==
    [reached |-> FALSE, event |-> EmptyDict, asset_id |-> Unbound, workflow_id |-> Unbound,
     call |-> NoCall]

\* module import (lines 39-45): the role and the bucket are copied out of the
\* environment once
Init ==
    /\ environ = StartEnvironment
    /\ mediaconvert_role = environ["mediaconvertRole"]
    /\ dataplane_bucket = environ["DATAPLANE_BUCKET"]
    /\ pc = "idle"
    /\ operator_object = [event |-> EmptyDict, status |-> "none", metadata |-> EmptyDict]
    /\ frame = NoFrame
    /\ call = NoCall
    /\ remote = NoRemote
    /\ result = NoResult
    /\ ncalls = 0
    /\ nclients = 0
    /\ njobs = 0
    /\ nreached = 0
    /\ ninvocations = 0
    /\ prev = NoPrev

\* raise MasExecutionError(operator_object.return_output_object())
MasExecutionError(obj) ==
    [kind |-> "raise", exc |-> "MasExecutionError", value |-> return_output_object(obj)]

\* an exception that leaves lambda_handler without passing an except clause
Uncaught(exc) == [kind |-> "raise", exc |-> exc, value |-> EmptyDict]

\* CreateJobCall with the role looked up in the environment at the call
CreateJobCallEnvironRole(f) ==
    [client |-> [endpoint_url |-> f.mediaconvert_endpoint],
     kwargs |-> [Role |-> environ["mediaconvertRole"],
                 Settings |-> JobSettings(f.thumbnail_position, f.thumbnail_destination,
                                          f.audio_destination, f.proxy_destination,
                                          f.file_input)]]

\* the keyword arguments of create_job and the client they are sent through
CreateJobCall(f) ==
    [client |-> [endpoint_url |-> f.mediaconvert_endpoint],
     kwargs |-> [Role |-> mediaconvert_role,
                 Settings |-> JobSettings(f.thumbnail_position, f.thumbnail_destination,
                                          f.audio_destination, f.proxy_destination,
                                          f.file_input)]]

\* SendCreateJob with a request equal to the last one sent not submitted again
SendCreateJobDeduplicated(c, n) ==
    /\ call' = c
    /\ ncalls' = n + 1
    /\ njobs' = IF c = call THEN njobs ELSE njobs + 1
    /\ pc' = "create_job"

\* customer_mediaconvert.create_job(...): the request leaves for the service
SendCreateJob(c, n) ==
    /\ call' = c
    /\ ncalls' = n + 1
    /\ njobs' = njobs + 1
    /\ pc' = "create_job"

\* the locals after lines 61-76, thumbnail_position still to be converted
PathsFrame(obj, req) ==
    LET asset_id == AssetIdOf(obj)
    IN  [NoFrame EXCEPT
            !.workflow_id = req.workflow_id,
            !.input_bucket = req.input_bucket,
            !.input_key = req.input_key,
            !.asset_id = asset_id,
            !.file_input = FileInput(req.input_bucket, req.input_key),
            !.audio_destination = AudioDestination(dataplane_bucket, asset_id, req.workflow_id),
            !.thumbnail_destination = ThumbnailDestination(dataplane_bucket, asset_id, req.workflow_id),
            !.proxy_destination = ProxyDestination(dataplane_bucket, asset_id, req.workflow_id)]

\* ExtractionFailure with the status update left out
ExtractionFailureNoStatus(obj, e) ==
    add_workflow_metadata(obj, [ThumbnailError |-> MissingKeyMessage(e)])

\* lines 57-58: the status and the metadata of a missing required key
ExtractionFailure(obj, e) ==
    add_workflow_metadata(update_workflow_status(obj, "Error"),
                          [ThumbnailError |-> MissingKeyMessage(e)])

\* lines 48-82: from the event to the create_job call, or to the exception
\* that ends the invocation before it
lambda_handler(ev) ==
    LET obj == MediaInsightsOperationHelper(ev)
        req == RequiredFields(obj)
        pos == ThumbnailPosition(obj.event.Configuration)
        ep  == GetItem(environ, "MEDIACONVERT_ENDPOINT")
        f1  == PathsFrame(obj, req)
        f2  == [f1 EXCEPT !.thumbnail_position = pos.n]
        f3  == [f2 EXCEPT !.mediaconvert_endpoint = ep.value]
        failed == ExtractionFailure(obj, req.exc)
    IN  /\ pc \in {"idle", "done"}
        /\ ninvocations < MaxInvocations
        /\ ninvocations' = ninvocations + 1
        /\ remote' = NoRemote
        /\ prev' = IF call # NoCall /\ ncalls > 0
                   THEN [reached |-> TRUE, event |-> event, asset_id |-> frame.asset_id,
                         workflow_id |-> frame.workflow_id, call |-> call]
                   ELSE prev
        /\ IF ~req.ok
           THEN /\ operator_object' = failed
                /\ result' = MasExecutionError(failed)
                /\ frame' = NoFrame
                /\ pc' = "done"
                /\ ncalls' = 0
                /\ nclients' = 0
                /\ UNCHANGED <<call, njobs, nreached>>
           ELSE IF ~pos.ok
           THEN /\ operator_object' = obj
                /\ result' = Uncaught("ValueError")
                /\ frame' = f1
                /\ pc' = "done"
                /\ ncalls' = 0
                /\ nclients' = 0
                /\ UNCHANGED <<call, njobs, nreached>>
           ELSE IF ~ep.ok
           THEN /\ operator_object' = obj
                /\ result' = Uncaught("KeyError")
                /\ frame' = f2
                /\ pc' = "done"
                /\ ncalls' = 0
                /\ nclients' = 0
                /\ UNCHANGED <<call, njobs, nreached>>
           ELSE /\ operator_object' = obj
                /\ result' = NoResult
                /\ frame' = f3
                /\ nclients' = 1
                /\ nreached' = nreached + 1
                /\ SendCreateJob(CreateJobCall(f3), 0)
        /\ UNCHANGED <<environ, mediaconvert_role, dataplane_bucket>>

\* SubmissionSuccess with the asset id and the workflow id interchanged
SubmissionSuccessSwapped(obj, response, f) ==
    add_workflow_metadata(
        update_workflow_status(obj, "Executing"),
        [MediaconvertJobId |-> response.Job.Id,
         MediaconvertInputFile |-> f.file_input,
         AssetId |-> f.workflow_id,
         WorkflowExecutionId |-> f.asset_id])

\* lines 463-465: the status and the metadata of a submitted job
SubmissionSuccess(obj, response, f) ==
    add_workflow_metadata(
        update_workflow_status(obj, "Executing"),
        [MediaconvertJobId |-> response.Job.Id,
         MediaconvertInputFile |-> f.file_input,
         AssetId |-> f.asset_id,
         WorkflowExecutionId |-> f.workflow_id])

\* SubmissionFailure with the status update left out
SubmissionFailureNoStatus(obj, e) ==
    add_workflow_metadata(obj, [ThumbnailError |-> ExcStr(e)])

\* lines 459-460: the status and the metadata of a failed submission
SubmissionFailure(obj, e) ==
    add_workflow_metadata(update_workflow_status(obj, "Error"),
                          [ThumbnailError |-> ExcStr(e)])

\* lines 462-466: create_job returns, the else clause of the try runs
create_job_returns(job_id) ==
    LET response == [Job |-> [Id |-> job_id]]
        obj == SubmissionSuccess(operator_object, response, frame)
    IN  /\ pc = "create_job"
        /\ remote' = [kind |-> "response", response |-> response, e |-> EmptyDict]
        /\ operator_object' = obj
        /\ result' = [kind |-> "return", exc |-> "none", value |-> return_output_object(obj)]
        /\ pc' = "done"
        /\ UNCHANGED <<environ, mediaconvert_role, dataplane_bucket, frame, call,
                       ncalls, nclients, njobs, nreached, ninvocations, prev>>

\* create_job_raises with one more attempt after the first failure
create_job_raises_retry(e) ==
    LET obj == SubmissionFailure(operator_object, e)
    IN  /\ pc = "create_job"
        /\ remote' = [kind |-> "error", response |-> EmptyDict, e |-> e]
        /\ IF ncalls < 2
           THEN /\ SendCreateJob(call, ncalls)
                /\ UNCHANGED <<operator_object, result>>
           ELSE /\ operator_object' = obj
                /\ result' = MasExecutionError(obj)
                /\ pc' = "done"
                /\ UNCHANGED <<call, ncalls, njobs>>
        /\ UNCHANGED <<environ, mediaconvert_role, dataplane_bucket, frame,
                       nclients, nreached, ninvocations, prev>>

\* lines 457-461: create_job raises, the catch-all runs
create_job_raises(e) ==
    LET obj == SubmissionFailure(operator_object, e)
    IN  /\ pc = "create_job"
        /\ remote' = [kind |-> "error", response |-> EmptyDict, e |-> e]
        /\ operator_object' = obj
        /\ result' = MasExecutionError(obj)
        /\ pc' = "done"
        /\ UNCHANGED <<environ, mediaconvert_role, dataplane_bucket, frame, call,
                       ncalls, nclients, njobs, nreached, ninvocations, prev>>

\* the process environment is changed between two invocations
EnvChange(env) ==
    /\ pc \in {"idle", "done"}
    /\ env # environ
    /\ environ' = env
    /\ UNCHANGED <<mediaconvert_role, dataplane_bucket, pc, operator_object, frame,
                   call, remote, result, ncalls, nclients, njobs, nreached, ninvocations, prev>>

Next ==
    \/ \E ev \in Events : lambda_handler(ev)
    \/ \E job_id \in JobIds : create_job_returns(job_id)
    \/ \E e \in RemoteErrors : create_job_raises(e)
    \/ \E env \in Environments : EnvChange(env)

Spec == Init /\ [][Next]_vars

\* ------------------------------------------------------------ properties
\* the current invocation has made its create_job call
Submitted == ncalls > 0

\* "s3://<bucket>/private/assets/<asset id>/"
AssetPrefix(bucket, asset) == <<"s3://">> \o bucket \o <<"/", "private/assets/">> \o asset \o <<"/">>

IsPrefix(p, s) == Len(p) <= Len(s) /\ SubSeq(s, 1, Len(p)) = p

ThumbnailCapture(c) == c.kwargs.Settings.OutputGroups[1].Outputs[1].FrameCaptureSettings

DestinationOf(c, i) == c.kwargs.Settings.OutputGroups[i].OutputGroupSettings.Destination

\* the required keys that cannot be found in an event
MissingKeys(ev) ==
    (IF "WorkflowExecutionId" \in DOMAIN ev THEN {} ELSE {"WorkflowExecutionId"})
    \cup (IF "Media" \in DOMAIN ev.Input THEN {} ELSE {"Media"})
    \cup (IF "Media" \in DOMAIN ev.Input
          THEN {"S3Bucket", "S3Key"} \ DOMAIN ev.Input.Media.Video
          ELSE {})

\* C1: when create_job returned a response with job id J, the invocation
\* has returned a record with status "Executing" whose metadata holds
\* MediaconvertJobId = J, MediaconvertInputFile = "s3://" + source bucket +
\* "/" + source key (the FileInput of the request), AssetId = the asset id
\* the destinations were built with, WorkflowExecutionId = the workflow
\* execution id (as a string).
C1_SuccessReturnsExecuting ==
    remote.kind = "response" =>
        /\ pc = "done"
        /\ result.kind = "return"
        /\ result.value.Status = "Executing"
        /\ LET md == result.value.MetaData
           IN  /\ DOMAIN md = {"MediaconvertJobId", "MediaconvertInputFile",
                               "AssetId", "WorkflowExecutionId"}
               /\ md.MediaconvertJobId = remote.response.Job.Id
               /\ md.MediaconvertInputFile =
                      <<"s3://">> \o event.Input.Media.Video.S3Bucket
                          \o <<"/">> \o event.Input.Media.Video.S3Key
               /\ md.MediaconvertInputFile = call.kwargs.Settings.Inputs[1].FileInput
               /\ md.AssetId = (IF "AssetId" \in DOMAIN event THEN event.AssetId ELSE << >>)
               /\ DestinationOf(call, 1) = AssetPrefix(dataplane_bucket, md.AssetId)
               /\ DestinationOf(call, 3) = AssetPrefix(dataplane_bucket, md.AssetId)
               /\ IsPrefix(AssetPrefix(dataplane_bucket, md.AssetId), DestinationOf(call, 2))
               /\ md.WorkflowExecutionId = PyStr(event.WorkflowExecutionId)

C1_Witness ==
    /\ remote.kind = "response"
    /\ remote.response.Job.Id = <<"abc123">>
    /\ result.kind = "return"
    /\ result.value.MetaData.MediaconvertJobId = <<"abc123">>
    /\ result.value.MetaData.AssetId = <<"asset-1">>
    /\ result.value.MetaData.WorkflowExecutionId = <<"1", "2">>

\* C2: when create_job raised an error E, the status is "Error", the
\* metadata field ThumbnailError is str(E), and the invocation has ended by
\* raising MasExecutionError with the updated record, the same exception as
\* for a missing field; it has not returned.
C2_RemoteErrorRaises ==
    remote.kind = "error" =>
        /\ pc = "done"
        /\ result.kind = "raise"
        /\ result.exc = "MasExecutionError"
        /\ result = MasExecutionError(operator_object)
        /\ result.value.Status = "Error"
        /\ result.value.MetaData = [ThumbnailError |-> ExcStr(remote.e)]

C2_Witness ==
    /\ remote.kind = "error"
    /\ remote.e = KeyError("Settings")
    /\ result.exc = "MasExecutionError"
    /\ result.value.MetaData.ThumbnailError = <<"'", "Settings", "'">>

\* C3: an invocation whose event lacks the source bucket, the source key or
\* the workflow execution id ends with status "Error", a ThumbnailError
\* message that names a key the event lacks, and MasExecutionError; it
\* creates no client and makes no create_job call.
C3_MissingFieldFails ==
    (ninvocations > 0 /\ ~HasRequired(event)) =>
        /\ pc = "done"
        /\ result.kind = "raise"
        /\ result.exc = "MasExecutionError"
        /\ result.value.Status = "Error"
        /\ \E k \in MissingKeys(event) :
               result.value.MetaData =
                   [ThumbnailError |-> <<"Missing a required metadata key ", "'", k, "'">>]
        /\ ncalls = 0
        /\ nclients = 0
        /\ remote.kind = "none"

C3_Witness ==
    /\ ninvocations > 0
    /\ "WorkflowExecutionId" \in DOMAIN event
    /\ MissingKeys(event) = {"S3Key"}
    /\ result.exc = "MasExecutionError"
    /\ result.value.MetaData.ThumbnailError =
           <<"Missing a required metadata key ", "'", "S3Key", "'">>
    /\ njobs = 1

\* C4: every invocation ends either by returning a record with status
\* "Executing" after a successful remote call or by raising
\* MasExecutionError with a record of status "Error"; the status is
\* "Executing" exactly when the remote call succeeded.
C4_TwoOutcomesOnly ==
    pc = "done" =>
        /\ \/ /\ result.kind = "return"
              /\ result.value.Status = "Executing"
              /\ remote.kind = "response"
           \/ /\ result.kind = "raise"
              /\ result.exc = "MasExecutionError"
              /\ result.value.Status = "Error"
        /\ operator_object.status = "Executing" <=> remote.kind = "response"

\* C5: in the submitted request the thumbnail capture has FramerateNumerator
\* 1, and FramerateDenominator 7 when the configuration has no
\* ThumbnailPosition and P when it has the integer ThumbnailPosition P.
C5_CaptureRate ==
    Submitted =>
        LET cfg == event.Configuration
            cap == ThumbnailCapture(call)
        IN  /\ cap.FramerateNumerator = 1
            /\ "ThumbnailPosition" \notin DOMAIN cfg => cap.FramerateDenominator = 7
            /\ ("ThumbnailPosition" \in DOMAIN cfg /\ cfg.ThumbnailPosition.t = "int")
                   => cap.FramerateDenominator = cfg.ThumbnailPosition.n

C5_Witness ==
    /\ pc = "create_job"
    /\ "ThumbnailPosition" \in DOMAIN event.Configuration
    /\ event.Configuration.ThumbnailPosition = IntVal(3)
    /\ ThumbnailCapture(call).FramerateDenominator = 3

\* C6: an invocation whose event has the required fields but no asset id
\* takes the asset id to be '', builds the destinations with '' in its
\* place, and goes on to make the create_job call.
C6_MissingAssetProceeds ==
    (ninvocations > 0 /\ HasRequired(event) /\ "AssetId" \notin DOMAIN event) =>
        /\ frame.asset_id = << >>
        /\ frame.thumbnail_destination = AssetPrefix(dataplane_bucket, << >>)
        /\ frame.proxy_destination = AssetPrefix(dataplane_bucket, << >>)
        /\ IsPrefix(AssetPrefix(dataplane_bucket, << >>), frame.audio_destination)
        /\ Submitted

\* C7 as stated: two invocations with the same destination bucket and asset
\* id build the same thumbnail, audio, proxy and streaming destinations,
\* whatever their workflow execution ids.
C7_DestinationsByAssetOnly ==
    (prev.reached /\ Submitted /\ prev.asset_id = frame.asset_id) =>
        \A i \in 1..4 : DestinationOf(prev.call, i) = DestinationOf(call, i)

\* C7 amended: every destination starts with
\* "s3://<dataplane bucket>/private/assets/<asset id>/"; the thumbnail, proxy
\* and streaming destinations are exactly that prefix, so two invocations
\* with the same asset id build the same ones; the audio destination adds
\* "workflows/<workflow execution id>/", so it is the same only for the same
\* workflow execution id.
C7_DestinationsByAssetAndWorkflow ==
    Submitted =>
        LET base == AssetPrefix(dataplane_bucket, frame.asset_id)
        IN  /\ DestinationOf(call, 1) = base
            /\ DestinationOf(call, 3) = base
            /\ DestinationOf(call, 4) = base
            /\ DestinationOf(call, 2) = base \o <<"workflows/">> \o frame.workflow_id \o <<"/">>
            /\ (prev.reached /\ prev.asset_id = frame.asset_id) =>
                   /\ \A i \in {1, 3, 4} : DestinationOf(prev.call, i) = DestinationOf(call, i)
                   /\ DestinationOf(prev.call, 2) = DestinationOf(call, 2)
                          <=> prev.workflow_id = frame.workflow_id

C7_Witness ==
    /\ prev.reached
    /\ Submitted
    /\ prev.asset_id = frame.asset_id
    /\ prev.workflow_id # frame.workflow_id
    /\ DestinationOf(prev.call, 1) = DestinationOf(call, 1)
    /\ DestinationOf(prev.call, 2) # DestinationOf(call, 2)

\* C8: one invocation makes at most one create_job call; once the call has
\* failed the invocation is over, with that one call made and that error
\* reported, whatever the error is.
C8_AtMostOneCall ==
    /\ ncalls <= 1
    /\ remote.kind = "error" =>
           /\ pc = "done"
           /\ ncalls = 1
           /\ result.exc = "MasExecutionError"
           /\ result.value.MetaData.ThumbnailError = ExcStr(remote.e)

C8_Witness ==
    /\ remote.kind = "error"
    /\ remote.e = Exception("AccessDenied")
    /\ pc = "done"
    /\ ncalls = 1
    /\ result.value.MetaData.ThumbnailError = <<"AccessDenied">>

\* C9: the service receives one create_job call for every invocation that
\* reaches submission; the call carries no idempotency token; an invocation
\* with the same event and endpoint as the one before sends an equal request
\* and it is still submitted as a further job.
C9_NoDeduplication ==
    /\ njobs = nreached
    /\ Submitted => DOMAIN call.kwargs = {"Role", "Settings"}
    /\ (prev.reached /\ Submitted /\ prev.event = event /\ prev.call.client = call.client) =>
           /\ prev.call = call
           /\ njobs >= 2

C9_Witness ==
    /\ prev.reached
    /\ pc = "create_job"
    /\ prev.event = event
    /\ prev.call = call
    /\ njobs = 2

FixedPart(c) ==
    [c.kwargs EXCEPT
        !.Settings.OutputGroups[1].Outputs[1].FrameCaptureSettings.FramerateDenominator = 0,
        !.Settings.OutputGroups[1].OutputGroupSettings.Destination = << >>,
        !.Settings.OutputGroups[2].OutputGroupSettings.Destination = << >>,
        !.Settings.OutputGroups[3].OutputGroupSettings.Destination = << >>,
        !.Settings.OutputGroups[4].OutputGroupSettings.Destination = << >>,
        !.Settings.Inputs[1].FileInput = << >>]

\* C11: every submitted request has one input and four output groups in the
\* order thumbnail, audio, proxy, adaptive streaming, the last with five
\* renditions; the requests of two invocations are equal in every field
\* other than the thumbnail capture FramerateDenominator, the destinations
\* of the output groups and the FileInput of the input.
C11_FixedTemplate ==
    Submitted =>
        LET settings == call.kwargs.Settings
            groups   == settings.OutputGroups
        IN  /\ DOMAIN settings = {"OutputGroups", "Inputs"}
            /\ Len(settings.Inputs) = 1
            /\ Len(groups) = 4
            /\ groups[1].CustomName = "thumbnail"
            /\ groups[1].Outputs[1].Codec = "FRAME_CAPTURE"
            /\ Len(groups[2].Outputs) = 1
            /\ groups[2].Outputs[1].NameModifier = "_audio"
            /\ groups[3].CustomName = "proxy"
            /\ groups[3].Outputs[1].NameModifier = "_proxy"
            /\ groups[4].Name = "Apple HLS"
            /\ groups[4].OutputGroupSettings.Type = "HLS_GROUP_SETTINGS"
            /\ Len(groups[4].Outputs) = 5
            /\ prev.reached => FixedPart(prev.call) = FixedPart(call)

C11_Witness ==
    /\ prev.reached
    /\ pc = "create_job"
    /\ prev.event.Configuration # event.Configuration
    /\ ThumbnailCapture(prev.call).FramerateDenominator
           # ThumbnailCapture(call).FramerateDenominator
    /\ DestinationOf(prev.call, 2) # DestinationOf(call, 2)
    /\ FixedPart(prev.call) = FixedPart(call)

\* the event's configuration carries an integer ThumbnailPosition below 1
NonPositivePosition(ev) ==
    /\ "ThumbnailPosition" \in DOMAIN ev.Configuration
    /\ ev.Configuration.ThumbnailPosition.t = "int"
    /\ ev.Configuration.ThumbnailPosition.n <= 0

\* C12: an invocation whose event has the required fields and an integer
\* ThumbnailPosition of 0 or less, run with the endpoint in the environment,
\* raises nothing locally: it makes the create_job call with
\* FramerateDenominator equal to that position, and it then returns exactly
\* when the remote call returns and raises exactly when the remote call
\* raises.
C12_NoLocalRangeCheck ==
    /\ [][(/\ ninvocations' = ninvocations + 1
           /\ HasRequired(event')
           /\ NonPositivePosition(event')
           /\ "MEDIACONVERT_ENDPOINT" \in DOMAIN environ)
          => /\ pc' = "create_job"
             /\ ncalls' = 1
             /\ result' = NoResult
             /\ operator_object'.status = "Started"
             /\ ThumbnailCapture(call').FramerateNumerator = 1
             /\ ThumbnailCapture(call').FramerateDenominator
                    = event'.Configuration.ThumbnailPosition.n]_vars
    /\ []((pc = "done" /\ Submitted /\ NonPositivePosition(event)) =>
             /\ result.kind = "return" <=> remote.kind = "response"
             /\ result.kind = "raise" <=> remote.kind = "error"
             /\ remote.kind # "none")

C12_Witness ==
    /\ pc = "create_job"
    /\ NonPositivePosition(event)
    /\ event.Configuration.ThumbnailPosition = IntVal(0)
    /\ ThumbnailCapture(call).FramerateDenominator = 0
    /\ result = NoResult

JobKeys == {"MediaconvertJobId", "MediaconvertInputFile", "AssetId", "WorkflowExecutionId"}

\* the metadata of the current invocation agrees with its status, and a
\* status is there only once the outcome is known
MetadataMatchesStatus ==
    LET md == operator_object.metadata
        st == operator_object.status
    IN  /\ "MediaconvertJobId" \in DOMAIN md <=> st = "Executing"
        /\ st = "Executing" => DOMAIN md = JobKeys
        /\ "ThumbnailError" \in DOMAIN md <=> st = "Error"
        /\ st = "Error" => DOMAIN md = {"ThumbnailError"}
        /\ ~("MediaconvertJobId" \in DOMAIN md /\ "ThumbnailError" \in DOMAIN md)
        /\ st \in {"none", "Started", "Executing", "Error"}
        /\ st = "Executing" => pc = "done" /\ remote.kind = "response"
        /\ st = "Error" =>
               /\ pc = "done"
               /\ \/ remote.kind = "error"
                  \/ remote.kind = "none" /\ ~HasRequired(event)
        /\ result.kind = "return" => result.value = return_output_object(operator_object)
        /\ result.exc = "MasExecutionError" =>
               result.value = return_output_object(operator_object)

\* within one invocation the status is written when it is still the one the
\* event came with, and nothing is written after it
StatusWrittenOnce ==
    ninvocations' = ninvocations =>
        /\ operator_object.status \in {"Executing", "Error"} =>
               operator_object' = operator_object
        /\ operator_object'.status # operator_object.status =>
               /\ operator_object.status = "Started"
               /\ operator_object'.status \in {"Executing", "Error"}
               /\ pc = "create_job"
               /\ pc' = "done"

\* C13: in every outcome of an invocation the job keys (MediaconvertJobId,
\* MediaconvertInputFile, AssetId, WorkflowExecutionId) are in the metadata
\* exactly when the status is "Executing" and ThumbnailError exactly when it
\* is "Error", never both; the status is written at most once per
\* invocation and only when the outcome (missing field, remote failure,
\* remote success) is known.
C13_MetadataMatchesStatus == []MetadataMatchesStatus /\ [][StatusWrittenOnce]_vars

C13_Witness ==
    /\ ninvocations = 2
    /\ prev.reached
    /\ operator_object.status = "Error"
    /\ remote.kind = "none"
    /\ DOMAIN operator_object.metadata = {"ThumbnailError"}
    /\ result.exc = "MasExecutionError"

====
